---- MODULE Spec2Model ----
(***************************************************************************)
(* Templating, title normalisation, key extraction, context building and   *)
(* the image URL hook of the Commons uploader.                             *)
(*                                                                         *)
(* A string is a sequence of one-character strings, so that the scanning,  *)
(* trimming and splitting the code performs are computed, not assumed.     *)
(* A JavaScript value is a record tagged by its kind.                      *)
(***************************************************************************)
EXTENDS Integers, Sequences, FiniteSets, TLC

VARIABLES
    template,        \* applyTemplate: the template argument
    context,         \* applyTemplate: the context argument (a JS object)
    maxIterations,   \* applyTemplate: the maxIterations argument
    result,          \* applyTemplate: let result
    previousResult,  \* applyTemplate: let previousResult
    iteration,       \* applyTemplate: let iteration
    finalPasses,     \* number of times the final replaceAll (line 139) has run
    pc,              \* position in applyTemplate: idle, loop, done
    filename,        \* normalizeMediaWikiFilename: the filename argument
    normalized,      \* normalizeMediaWikiFilename: let normalized
    npc,             \* position in normalizeMediaWikiFilename
    keyTemplate,     \* extractTemplateKeys: the template argument
    extracted,       \* extractTemplateKeys: the array it returned
    ctxImage,        \* context building: the image (name, keys, exifData)
    ctxIndex,        \* context building: the position of the image
    ctxGlobals,      \* context building: the global variables of the store
    ctxUtility,      \* what createUtilityContext(image, index) returned
    built,           \* the render context built for the image
    imageId,         \* useImageUrl: the imageId of the latest render
    mounted,         \* useImageUrl: the component is mounted
    state,           \* useImageUrl: the reducer state
    effects,         \* useImageUrl: the runs of the effect, oldest first
    created,         \* object URLs made by URL.createObjectURL
    revoked,         \* object URLs passed to URL.revokeObjectURL
    images,          \* store: imageSet.images, its entries in insertion order
    imageOrder,      \* store: imageSet.imageOrder
    blobs,           \* blob storage: the ids that have a record
    issued,          \* number of ids crypto.randomUUID has handed out
    inFlight,        \* store operations that await blob storage
    rendered,        \* Review tab: processedImages of the latest render
    isUploading,     \* Review tab: the isUploading state
    run,             \* Review tab: the closure of the handleUploadAll call
    uploadCalls,     \* the calls of uploadFile so far: the marks of the image
    imageUrlCache,   \* useImageData: the module-level imageUrlCache
    getting,         \* per image, the getCachedImageUrl calls that await
    holding,         \* per object URL, the gets that returned it, unreleased
    urlsCreated,     \* the image of every object URL made, oldest first
    urlsRevoked      \* object URLs the cache passed to URL.revokeObjectURL

vars == <<template, context, maxIterations, result, previousResult, iteration,
          finalPasses, pc, filename, normalized, npc, keyTemplate, extracted,
          ctxImage, ctxIndex, ctxGlobals, ctxUtility, built,
          imageId, mounted, state, effects, created, revoked,
          images, imageOrder, blobs, issued, inFlight, rendered,
          isUploading, run, uploadCalls,
          imageUrlCache, getting, holding, urlsCreated, urlsRevoked>>

tvars == <<template, context, maxIterations, result, previousResult, iteration,
           finalPasses, pc>>

nvars == <<filename, normalized, npc>>

kvars == <<keyTemplate, extracted>>

cvars == <<ctxImage, ctxIndex, ctxGlobals, ctxUtility, built>>

hvars == <<imageId, mounted, state, effects, created, revoked>>

svars == <<images, imageOrder, blobs, issued, inFlight, rendered>>

uvars == <<isUploading, run, uploadCalls>>

avars == <<imageUrlCache, getting, holding, urlsCreated, urlsRevoked>>

-----------------------------------------------------------------------------
(* Bounds of the model *)

\* maxIterations is drawn from 0..MaxIter, and from the default
MaxIter == 3

\* a template of the syntax specification is made of at most MaxPieces pieces
MaxPieces == 4

\* a filename has at most MaxLen characters
MaxLen == 4

\* default value of the maxIterations parameter
DefaultMaxIterations == 10

-----------------------------------------------------------------------------
(* Strings *)

Empty == <<>>

KA == <<"a">>
KB == <<"b">>
KGlobal == <<"g", "l", "o", "b", "a", "l">>
KExif == <<"e", "x", "i", "f">>
KUtility == <<"u", "t", "i", "l", "i", "t", "y">>
KMissing == <<"m", "i", "s", "s", "i", "n", "g">>
KExtension == <<"e", "x", "t", "e", "n", "s", "i", "o", "n">>
KIndex == <<"i", "n", "d", "e", "x">>
Dot == <<".">>
Space == <<" ">>
Open == <<"<", "<", "<">>
Close == <<">", ">", ">">>

\* const MISSING_PLACEHOLDER = "<<<missing>>>"
MISSING_PLACEHOLDER == Open \o KMissing \o Close

\* the characters String.prototype.trim removes, and those `.` does not match
IsWhitespace(c) == c \in {" ", "\n", "\r", "\t"}
IsLineTerminator(c) == c \in {"\n", "\r"}

RECURSIVE TrimStart(_)
TrimStart(s) ==
    IF s # <<>> /\ IsWhitespace(Head(s)) THEN TrimStart(Tail(s)) ELSE s

RECURSIVE TrimEnd(_)
TrimEnd(s) ==
    IF s # <<>> /\ IsWhitespace(s[Len(s)])
    THEN TrimEnd(SubSeq(s, 1, Len(s) - 1))
    ELSE s

\* String.prototype.trim
Trim(s) == TrimEnd(TrimStart(s))

\* String.prototype.split("."): the segments between the dots, empty ones kept
RECURSIVE SplitDot(_, _)
SplitDot(s, cur) ==
    IF s = <<>> THEN <<cur>>
    ELSE IF Head(s) = "." THEN <<cur>> \o SplitDot(Tail(s), <<>>)
    ELSE SplitDot(Tail(s), Append(cur, Head(s)))

-----------------------------------------------------------------------------
(* JavaScript values *)

Undefined == [kind |-> "undefined"]
Null == [kind |-> "null"]
Str(s) == [kind |-> "string", str |-> s]
Num(n) == [kind |-> "number", num |-> n]
Obj(f) == [kind |-> "object", fields |-> f]

EmptyFields == [k \in {} |-> Undefined]

\* one decimal digit as a character
Digit(n) ==
    CASE n = 0 -> "0" [] n = 1 -> "1" [] n = 2 -> "2" [] n = 3 -> "3"
      [] n = 4 -> "4" [] n = 5 -> "5" [] n = 6 -> "6" [] n = 7 -> "7"
      [] n = 8 -> "8" [] OTHER -> "9"

RECURSIVE Digits(_)
Digits(n) == IF n < 10 THEN <<Digit(n)>> ELSE Digits(n \div 10) \o <<Digit(n % 10)>>

ObjectObject ==
    <<"[", "o", "b", "j", "e", "c", "t", " ", "O", "b", "j", "e", "c", "t", "]">>

\* String(value) for a value that is neither undefined nor null
String(v) ==
    CASE v.kind = "string" -> v.str
      [] v.kind = "number" -> Digits(v.num)
      [] v.kind = "object" -> ObjectObject
      [] v.kind = "null" -> <<"n", "u", "l", "l">>
      [] OTHER -> <<"u", "n", "d", "e", "f", "i", "n", "e", "d">>

\* object[part]: the property, undefined when the object has none of that name
Prop(fields, part) == IF part \in DOMAIN fields THEN fields[part] ELSE Undefined

\* { ...a, ...b }: the properties of b override those of a
Spread(a, b) ==
    [k \in DOMAIN a \cup DOMAIN b |-> IF k \in DOMAIN b THEN b[k] ELSE a[k]]

-----------------------------------------------------------------------------
(* The placeholder pattern /<<<(.*?)>>>/g *)

\* pat occurs in s at position i
IsAt(s, i, pat) ==
    /\ i >= 1
    /\ i + Len(pat) - 1 <= Len(s)
    /\ SubSeq(s, i, i + Len(pat) - 1) = pat

\* (.*?)>>> from position j: the position of the first >>> at or after j that
\* is reached without crossing a line terminator, 0 when there is none
RECURSIVE FindClose(_, _)
FindClose(s, j) ==
    IF j + 2 > Len(s) THEN 0
    ELSE IF IsAt(s, j, Close) THEN j
    ELSE IF IsLineTerminator(s[j]) THEN 0
    ELSE FindClose(s, j + 1)

\* regex.exec from lastIndex i: the leftmost match at or after i, as the
\* positions <<start of <<<, start of >>> >>, and <<0, 0>> when there is none
RECURSIVE FindMatch(_, _)
FindMatch(s, i) ==
    IF i + 5 > Len(s) THEN <<0, 0>>
    ELSE IF IsAt(s, i, Open) /\ FindClose(s, i + 3) # 0
         THEN <<i, FindClose(s, i + 3)>>
         ELSE FindMatch(s, i + 1)

\* the matches of the pattern in s, left to right, as the global scan finds them
RECURSIVE Matches(_, _)
Matches(s, i) ==
    LET m == FindMatch(s, i)
    IN  IF m[1] = 0 THEN <<>>
        ELSE <<[full |-> SubSeq(s, m[1], m[2] + 2),
                key |-> SubSeq(s, m[1] + 3, m[2] - 1)]>> \o Matches(s, m[2] + 3)

\* a variant that keeps the keys in an array: every add appends
SetAddAlways(keys, k) == Append(keys, k)

\* keys.add(k) on a Set, whose elements are kept in insertion order
SetAdd(keys, k) ==
    IF \E i \in 1..Len(keys) : keys[i] = k THEN keys ELSE Append(keys, k)

\* the while loop over regex.exec, from match i on:
\* if (match[1]) keys.add(match[1].trim())
RECURSIVE CollectKeys(_, _, _)
CollectKeys(ms, i, keys) ==
    IF i > Len(ms) THEN keys
    ELSE CollectKeys(ms, i + 1,
                     IF ms[i].key # <<>> THEN SetAdd(keys, Trim(ms[i].key))
                     ELSE keys)

\* extractTemplateKeys: [...keys], the array of the keys that were added
extractTemplateKeys(t) == CollectKeys(Matches(t, 1), 1, <<>>)

-----------------------------------------------------------------------------
(* getNestedValue *)

RECURSIVE Walk(_, _)
Walk(current, parts) ==
    IF parts = <<>> THEN current
    ELSE IF current.kind # "object" THEN Undefined
    ELSE Walk(Prop(current.fields, Head(parts)), Tail(parts))

\* a lookup that, on a miss, looks the last segment up at the top level
getNestedValueAnyLayer(object, path) ==
    LET parts == SplitDot(path, <<>>)
        value == Walk(object, parts)
    IN  IF value.kind = "undefined" /\ object.kind = "object"
        THEN Prop(object.fields, parts[Len(parts)])
        ELSE value

\* a lookup that first tries the whole path as one property name
getNestedValueFlatFirst(object, path) ==
    IF object.kind = "object" /\ path \in DOMAIN object.fields
    THEN object.fields[path]
    ELSE Walk(object, SplitDot(path, <<>>))

getNestedValue(object, path) == Walk(object, SplitDot(path, <<>>))

-----------------------------------------------------------------------------
(* applyTemplate *)

\* value !== undefined && value !== null && value !== ""
IsPresent(value) ==
    /\ value.kind # "undefined"
    /\ value.kind # "null"
    /\ ~(value.kind = "string" /\ value.str = <<>>)

\* a replacer that consults the global layer before the local one
LoopReplacerGlobalFirst(fullMatch, key, ctx, iter, maxIt) ==
    LET trimmedKey == Trim(key)
        shared == getNestedValue(ctx, KGlobal \o Dot \o trimmedKey)
        value == IF IsPresent(shared) THEN shared ELSE getNestedValue(ctx, trimmedKey)
    IN  IF IsPresent(value) THEN Trim(String(value))
        ELSE IF iter = maxIt THEN MISSING_PLACEHOLDER
        ELSE fullMatch

\* a replacer that substitutes a missing value by the empty string
LoopReplacerEmpty(fullMatch, key, ctx, iter, maxIt) ==
    LET trimmedKey == Trim(key)
        value == getNestedValue(ctx, trimmedKey)
    IN  IF IsPresent(value) THEN Trim(String(value)) ELSE <<>>

\* the replacer of the loop (lines 115-135)
LoopReplacer(fullMatch, key, ctx, iter, maxIt) ==
    LET trimmedKey == Trim(key)
        value == getNestedValue(ctx, trimmedKey)
    IN  IF IsPresent(value) THEN Trim(String(value))
        ELSE IF iter = maxIt THEN MISSING_PLACEHOLDER
        ELSE fullMatch

\* a final pass that leaves the placeholder in place
FinalReplacerKeep(fullMatch, key) == fullMatch

\* the replacer of the final pass (line 139)
FinalReplacer(fullMatch, key) == MISSING_PLACEHOLDER

\* result.replaceAll(regex, replacer) from position pos on; final selects the
\* replacer of the final pass
RECURSIVE ReplaceAll(_, _, _, _, _, _)
ReplaceAll(s, pos, ctx, iter, maxIt, final) ==
    LET m == FindMatch(s, pos)
    IN  IF m[1] = 0 THEN SubSeq(s, pos, Len(s))
        ELSE LET full == SubSeq(s, m[1], m[2] + 2)
                 key == SubSeq(s, m[1] + 3, m[2] - 1)
             IN  SubSeq(s, pos, m[1] - 1)
                 \o (IF final THEN FinalReplacer(full, key)
                     ELSE LoopReplacer(full, key, ctx, iter, maxIt))
                 \o ReplaceAll(s, m[2] + 3, ctx, iter, maxIt, final)

\* a loop that runs until the fixed point, whatever the iteration count
LoopConditionUnbounded == result # previousResult

\* a loop that stops one pass short of maxIterations
LoopConditionOneShort == result # previousResult /\ iteration + 1 < maxIterations

\* while (result !== previousResult && iteration < maxIterations)
LoopCondition == result # previousResult /\ iteration < maxIterations

\* the call: lines 106-108
Call(t, c, m) ==
    /\ template' = t
    /\ context' = c
    /\ maxIterations' = m
    /\ result' = t
    /\ previousResult' = <<>>
    /\ iteration' = 0
    /\ finalPasses' = 0
    /\ pc' = "loop"
    /\ UNCHANGED <<nvars, kvars, cvars, hvars, svars, uvars, avars>>

\* one turn of the loop: lines 111-136
LoopPass ==
    /\ pc = "loop"
    /\ LoopCondition
    /\ previousResult' = result
    /\ iteration' = iteration + 1
    /\ result' = ReplaceAll(result, 1, context, iteration + 1, maxIterations, FALSE)
    /\ UNCHANGED <<template, context, maxIterations, finalPasses, pc, nvars, kvars, cvars, hvars, svars, uvars, avars>>

\* the loop ends, the final pass runs and the function returns: lines 138-141
FinalPass ==
    /\ pc = "loop"
    /\ ~LoopCondition
    /\ result' = ReplaceAll(result, 1, context, iteration, maxIterations, TRUE)
    /\ finalPasses' = finalPasses + 1
    /\ pc' = "done"
    /\ UNCHANGED <<template, context, maxIterations, previousResult, iteration, nvars, kvars, cvars, hvars, svars, uvars, avars>>

-----------------------------------------------------------------------------
(* The context of one image, as the Review tab builds it *)

KDate == <<"d", "a", "t", "e">>
KDateTime == <<"d", "a", "t", "e", "T", "i", "m", "e">>
KDateTimeOriginal == <<"D", "a", "t", "e", "T", "i", "m", "e", "O", "r", "i", "g", "i", "n", "a", "l">>
KCreateDate == <<"C", "r", "e", "a", "t", "e", "D", "a", "t", "e">>

\* String.prototype.toLowerCase, one character at a time
UpperLetters == <<"A", "B", "C", "D", "E", "F", "G", "H", "I", "J", "K", "L", "M", "N", "O", "P", "Q", "R", "S", "T", "U", "V", "W", "X", "Y", "Z">>
LowerLetters == <<"a", "b", "c", "d", "e", "f", "g", "h", "i", "j", "k", "l", "m", "n", "o", "p", "q", "r", "s", "t", "u", "v", "w", "x", "y", "z">>

ToLowerCase(c) ==
    IF \E i \in 1..Len(UpperLetters) : UpperLetters[i] = c
    THEN LowerLetters[CHOOSE i \in 1..Len(UpperLetters) : UpperLetters[i] = c]
    ELSE c

toLowerCase(s) == [i \in 1..Len(s) |-> ToLowerCase(s[i])]

\* array.pop() of a split: its last segment
Pop(parts) == parts[Len(parts)]

\* image.name.includes(".") ? image.name.split(".").pop()?.toLowerCase() ?? ""
\*                          : ""
ExtensionOfName(name) ==
    IF \E i \in 1..Len(name) : name[i] = "."
    THEN toLowerCase(Pop(SplitDot(name, <<>>)))
    ELSE Empty

\* value?.[key]: undefined when value is undefined or null
OptionalProp(value, key) ==
    IF value.kind = "object" THEN Prop(value.fields, key) ELSE Undefined

\* a ?? b
Coalesce(a, b) == IF a = Undefined \/ a = Null THEN b ELSE a

\* a Date object: valid with its local calendar fields (month as getMonth
\* gives it, from 0), or an Invalid Date
DateObject(y, mo, d, h, mi) ==
    [kind |-> "date", valid |-> TRUE, year |-> y, month |-> mo, day |-> d,
     hours |-> h, minutes |-> mi]
InvalidDate ==
    [kind |-> "date", valid |-> FALSE, year |-> 0, month |-> 0, day |-> 0,
     hours |-> 0, minutes |-> 0]

IsDigitChar(c) == \E n \in 0..9 : Digit(n) = c
DigitValue(c) == CHOOSE n \in 0..9 : Digit(n) = c

RECURSIVE NumberOf(_)
NumberOf(s) ==
    IF s = <<>> THEN 0
    ELSE 10 * NumberOf(SubSeq(s, 1, Len(s) - 1)) + DigitValue(s[Len(s)])

AllDigits(s, from, to) == to <= Len(s) /\ \A i \in from..to : IsDigitChar(s[i])

\* the colon-delimited year:month:day at the start of a machine-formatted
\* timestamp becomes year-month-day
ReplaceExifColons(s) ==
    IF /\ AllDigits(s, 1, 4) /\ AllDigits(s, 6, 7) /\ AllDigits(s, 9, 10)
       /\ s[5] = ":" /\ s[8] = ":"
    THEN [s EXCEPT ![5] = "-", ![8] = "-"]
    ELSE s

\* new Date(text): a text of the shape YYYY-MM-DD HH:mm:ss is read as local
\* time; every other text of the model gives an Invalid Date
NewDate(s) ==
    IF /\ Len(s) = 19
       /\ AllDigits(s, 1, 4) /\ AllDigits(s, 6, 7) /\ AllDigits(s, 9, 10)
       /\ AllDigits(s, 12, 13) /\ AllDigits(s, 15, 16) /\ AllDigits(s, 18, 19)
       /\ s[5] = "-" /\ s[8] = "-" /\ s[11] = " " /\ s[14] = ":" /\ s[17] = ":"
    THEN LET mo == NumberOf(SubSeq(s, 6, 7))
             d == NumberOf(SubSeq(s, 9, 10))
             h == NumberOf(SubSeq(s, 12, 13))
             mi == NumberOf(SubSeq(s, 15, 16))
             sec == NumberOf(SubSeq(s, 18, 19))
         IN  IF mo \in 1..12 /\ d \in 1..31 /\ h \in 0..23 /\ mi \in 0..59
                /\ sec \in 0..59
             THEN DateObject(NumberOf(SubSeq(s, 1, 4)), mo - 1, d, h, mi)
             ELSE InvalidDate
    ELSE InvalidDate

\* the three accepted shapes of a timestamp: a Date, a colon-delimited text, a
\* free-form text; anything else is not a timestamp
ParseTimestamp(dateValue) ==
    IF dateValue.kind = "date" THEN dateValue
    ELSE IF dateValue.kind = "string"
    THEN NewDate(ReplaceExifColons(dateValue.str))
    ELSE InvalidDate

\* String.prototype.padStart(width, "0")
RECURSIVE PadStart(_, _)
PadStart(s, width) == IF Len(s) < width THEN PadStart(<<"0">> \o s, width) ELSE s

\* YYYY-MM-DD and HH:mm of the local calendar fields
DateText(d) ==
    PadStart(Digits(d.year), 4) \o <<"-">> \o PadStart(Digits(d.month + 1), 2)
        \o <<"-">> \o PadStart(Digits(d.day), 2)
TimeText(d) ==
    PadStart(Digits(d.hours), 2) \o <<":">> \o PadStart(Digits(d.minutes), 2)

\* formatExifDateOnly: YYYY-MM-DD, undefined for what is not a valid timestamp
formatExifDateOnly(dateValue) ==
    LET d == ParseTimestamp(dateValue)
    IN  IF d.valid THEN Str(DateText(d)) ELSE Undefined

\* formatExifDateTime: YYYY-MM-DD HH:mm, undefined likewise
formatExifDateTime(dateValue) ==
    LET d == ParseTimestamp(dateValue)
    IN  IF d.valid THEN Str(DateText(d) \o Space \o TimeText(d)) ELSE Undefined

\* { extension, index, date, dateTime }
UtilityObject(extension, index, date, dateTime) ==
    Obj((KExtension :> Str(extension)) @@ (KIndex :> Num(index))
        @@ (KDate :> date) @@ (KDateTime :> dateTime))

\* image.exifData?.DateTimeOriginal ?? image.exifData?.CreateDate
DateValueOf(image) ==
    Coalesce(OptionalProp(image.exifData, KDateTimeOriginal),
             OptionalProp(image.exifData, KCreateDate))

\* a variant that returns the position as it was given
createUtilityContextRawIndex(image, index) ==
    UtilityObject(ExtensionOfName(image.name), index,
                  formatExifDateOnly(DateValueOf(image)),
                  formatExifDateTime(DateValueOf(image)))

\* a variant that prefers CreateDate to DateTimeOriginal
createUtilityContextCreateDateFirst(image, index) ==
    LET dateValue == Coalesce(OptionalProp(image.exifData, KCreateDate),
                              OptionalProp(image.exifData, KDateTimeOriginal))
    IN  UtilityObject(ExtensionOfName(image.name), index + 1,
                      formatExifDateOnly(dateValue),
                      formatExifDateTime(dateValue))

\* a variant that reads dateTime from CreateDate alone
createUtilityContextSplitDates(image, index) ==
    UtilityObject(ExtensionOfName(image.name), index + 1,
                  formatExifDateOnly(DateValueOf(image)),
                  formatExifDateTime(OptionalProp(image.exifData, KCreateDate)))

\* a variant that keeps the case of the extension
createUtilityContextKeepCase(image, index) ==
    UtilityObject(IF \E i \in 1..Len(image.name) : image.name[i] = "."
                  THEN Pop(SplitDot(image.name, <<>>)) ELSE Empty,
                  index + 1,
                  formatExifDateOnly(DateValueOf(image)),
                  formatExifDateTime(DateValueOf(image)))

\* createUtilityContext: extension, 1-based index, date and dateTime
createUtilityContext(image, index) ==
    LET extension == ExtensionOfName(image.name)
        dateValue == DateValueOf(image)
        date == formatExifDateOnly(dateValue)
        dateTime == formatExifDateTime(dateValue)
        incrementedIndex == index + 1
    IN  UtilityObject(extension, incrementedIndex, date, dateTime)

\* image.exifData ?? {}
ExifOrEmpty(exifData) ==
    IF exifData.kind = "object" THEN exifData.fields ELSE EmptyFields

\* an image of the store whose name is a.JPG, without keys or EXIF data
SampleImage ==
    [name |-> <<"a", ".", "J", "P", "G">>, keys |-> EmptyFields,
     exifData |-> Undefined]

\* a variant that spreads the local keys after the three namespaces
BuildContextKeysLast(keys, exifData, globalVariables, utility) ==
    Obj(Spread((KExif :> Obj(exifData)) @@ (KGlobal :> Obj(globalVariables))
               @@ (KUtility :> utility), keys))

\* { ...image.keys, exif: image.exifData ?? {}, global: globalVariables,
\*   utility: createUtilityContext(image, index) }
BuildContext(keys, exifData, globalVariables, utility) ==
    Obj(Spread(keys, (KExif :> Obj(exifData))
                     @@ (KGlobal :> Obj(globalVariables))
                     @@ (KUtility :> utility)))

\* an object with the one property k, or with none when v is undefined
Entry(k, v) == IF v = Undefined THEN EmptyFields ELSE (k :> v)

-----------------------------------------------------------------------------
(* Inputs *)

Placeholder(k) == Open \o k \o Close

LocalAValues ==
    {Undefined, Str(<<>>), Str(<<" ", "x", " ">>), Str(Placeholder(KA)),
     Str(Placeholder(KB))}
LocalBValues == {Undefined, Str(<<"y">>), Str(Placeholder(KA))}
GlobalAValues == {Undefined, Str(<<>>), Str(<<" ", "g">>)}
ExifAValues == {Undefined, Null, Str(<<"e">>), Num(7)}

ResolveContexts ==
    {BuildContext(Entry(KA, la) @@ Entry(KB, lb), Entry(KA, ea), Entry(KA, ga),
                  createUtilityContext(SampleImage, 0)) :
        la \in LocalAValues, lb \in LocalBValues, ga \in GlobalAValues,
        ea \in ExifAValues}
    \cup {Obj(EmptyFields)}

ResolveKeys ==
    {KA, KB, KMissing, KGlobal \o Dot \o KA, KExif \o Dot \o KA,
     KUtility \o Dot \o KA, KUtility \o Dot \o KIndex}

\* one placeholder, bare, or padded and surrounded by plain text
Bare(k) == Placeholder(k)
Padded(k) == <<"p">> \o Placeholder(Space \o k \o Space) \o <<"q">>

ResolveTemplates == {Bare(k) : k \in ResolveKeys} \cup {Padded(k) : k \in ResolveKeys}

Pieces == {Open, Close, <<"<">>, <<">">>, Space, KA}

RECURSIVE PieceSeqs(_)
PieceSeqs(n) ==
    IF n = 0 THEN {<<>>}
    ELSE LET shorter == PieceSeqs(n - 1)
         IN  shorter \cup {p \o t : p \in Pieces, t \in shorter}

\* every string made of at most MaxPieces pieces, well-formed or not
SyntaxTemplates == PieceSeqs(MaxPieces)

SyntaxContexts ==
    {BuildContext(Entry(KA, la), EmptyFields, EmptyFields,
                  createUtilityContext(SampleImage, 0)) :
        la \in {Undefined, Str(<<"x">>), Str(Open), Str(<<">">>)}}

-----------------------------------------------------------------------------
(* Specification of the render engine *)

TInit ==
    /\ template = <<>>
    /\ context = Obj(EmptyFields)
    /\ maxIterations = 0
    /\ result = <<>>
    /\ previousResult = <<>>
    /\ iteration = 0
    /\ finalPasses = 0
    /\ pc = "idle"

NInit ==
    /\ filename = <<>>
    /\ normalized = <<>>
    /\ npc = "idle"

\* no template has been scanned for keys yet
KInit ==
    /\ keyTemplate = <<>>
    /\ extracted = <<>>

\* no render context has been built yet
CInit ==
    /\ ctxImage = [name |-> <<>>, keys |-> EmptyFields, exifData |-> Undefined]
    /\ ctxIndex = 0
    /\ ctxGlobals = EmptyFields
    /\ ctxUtility = Undefined
    /\ built = Undefined

\* the component that calls useImageUrl has not been mounted yet
HInit ==
    /\ imageId = Undefined
    /\ mounted = FALSE
    /\ state = [imageUrl |-> Undefined, isLoading |-> FALSE,
                error |-> Undefined, imageId |-> Undefined]
    /\ effects = <<>>
    /\ created = {}
    /\ revoked = {}

\* the store as created (lines 117 to 123), with nothing in blob storage and
\* no operation under way
SInit ==
    /\ images = <<>>
    /\ imageOrder = <<>>
    /\ blobs = {}
    /\ issued = 0
    /\ inFlight = {}
    /\ rendered = [threw |-> FALSE, items |-> <<>>]

\* the Review tab before any upload: useState(false), no call under way
UInit ==
    /\ isUploading = FALSE
    /\ run = [stage |-> "idle", items |-> <<>>, pos |-> 0, reviewed |-> FALSE]
    /\ uploadCalls = {}

\* the image ids of the hook and of the cache
ImageIds == {Str(<<"1">>), Str(<<"2">>)}

\* const imageUrlCache = {} and no call under way
AInit ==
    /\ imageUrlCache = <<>>
    /\ getting = [id \in ImageIds |-> 0]
    /\ holding = <<>>
    /\ urlsCreated = <<>>
    /\ urlsRevoked = {}

Init == TInit /\ NInit /\ KInit /\ CInit /\ HInit /\ SInit /\ UInit /\ AInit

\* a render of a template with one placeholder against a layered context
CallResolve ==
    /\ pc = "idle"
    /\ \E t \in ResolveTemplates, c \in ResolveContexts,
          m \in (0..MaxIter) \cup {DefaultMaxIterations} :
           Call(t, c, m)

\* a render of an arbitrary template, maxIterations given or left to its default
CallSyntax ==
    /\ pc = "idle"
    /\ \E t \in SyntaxTemplates, c \in SyntaxContexts,
          m \in {0, 1, DefaultMaxIterations} :
           Call(t, c, m)

\* a chain of indirection has at most MaxDepth links
MaxDepth == 4

\* the keys k1, k2, ... of a chain
ChainKey(i) == <<"k">> \o Digits(i)

PlainText == <<"t">>

\* local keys k1..kd: each resolves to the placeholder of the next, the last
\* to plain text
ChainKeys(d) ==
    [k \in {ChainKey(i) : i \in 1..d} |->
        LET i == CHOOSE j \in 1..d : ChainKey(j) = k
        IN  IF i = d THEN Str(PlainText) ELSE Str(Placeholder(ChainKey(i + 1)))]

ChainContext(d) ==
    BuildContext(ChainKeys(d), EmptyFields, EmptyFields,
                 createUtilityContext(SampleImage, 0))

\* a render of the placeholder of k1 against a chain of indirection
CallChain ==
    /\ pc = "idle"
    /\ \E d \in 1..MaxDepth, m \in (0..MaxIter) \cup {DefaultMaxIterations} :
           Call(Placeholder(ChainKey(1)), ChainContext(d), m)

\* the key a.b, as the Fill out tab stores it, and as a path into an object a
DottedKey == KA \o Dot \o KB

FlatValues == {Undefined, Str(<<"f">>)}

NestedValues ==
    {Undefined, Str(<<"x">>), Obj(EmptyFields), Obj(KB :> Str(Empty)),
     Obj(KB :> Str(<<"n">>)), Obj(KB :> Num(7))}

DottedContexts ==
    {BuildContext(Entry(DottedKey, flat) @@ Entry(KA, nested), EmptyFields,
                  EmptyFields, createUtilityContext(SampleImage, 0)) :
        flat \in FlatValues, nested \in NestedValues}

\* a render of the placeholder of a.b against a context with the flat entry
\* a.b, with an entry a, with both or with neither
CallDotted ==
    /\ pc = "idle"
    /\ \E t \in {Bare(DottedKey), Padded(DottedKey)}, c \in DottedContexts,
          m \in (0..MaxIter) \cup {DefaultMaxIterations} :
           Call(t, c, m)

\* key.startsWith(prefix)
StartsWith(key, prefix) == IsAt(key, 1, prefix)

\* the keys memo of the Fill out tab: the extracted keys without those that
\* start with global., exif. or utility.
FillOutKeys(titleTemplate, body) ==
    SelectSeq(extractTemplateKeys(titleTemplate \o Space \o body),
              LAMBDA key : /\ ~StartsWith(key, KGlobal \o Dot)
                           /\ ~StartsWith(key, KExif \o Dot)
                           /\ ~StartsWith(key, KUtility \o Dot))

Next ==
    CallResolve \/ CallSyntax \/ CallChain \/ CallDotted \/ LoopPass \/ FinalPass

Spec == Init /\ [][Next]_vars

-----------------------------------------------------------------------------
(* normalizeMediaWikiFilename *)

\* FORBIDDEN_CHARS, in the order of its entries
FORBIDDEN_CHARS ==
    << <<"#", "-">>, <<"<", "-">>, <<">", "-">>, <<"[", "(">>, <<"]", ")">>,
       <<"{", "(">>, <<"}", ")">>, <<"|", "-">>, <<":", "-">> >>

\* s.replaceAll(from, to) for one character
ReplaceChar(s, from, to) ==
    [i \in 1..Len(s) |-> IF s[i] = from THEN to ELSE s[i]]

\* the loop over Object.entries(FORBIDDEN_CHARS), from entry i on
RECURSIVE ReplaceForbiddenFrom(_, _)
ReplaceForbiddenFrom(s, i) ==
    IF i > Len(FORBIDDEN_CHARS) THEN s
    ELSE ReplaceForbiddenFrom(
             ReplaceChar(s, FORBIDDEN_CHARS[i][1], FORBIDDEN_CHARS[i][2]), i + 1)

ReplaceForbidden(s) == ReplaceForbiddenFrom(s, 1)

\* a variant that replaces the first space only, as String.replace would
ReplaceSpacesFirstOnly(s) ==
    IF \E i \in 1..Len(s) : s[i] = " "
    THEN LET first == CHOOSE i \in 1..Len(s) :
                          s[i] = " " /\ \A j \in 1..(i - 1) : s[j] # " "
         IN  [s EXCEPT ![first] = "_"]
    ELSE s

\* normalized.replaceAll(" ", "_")
ReplaceSpaces(s) == ReplaceChar(s, " ", "_")

\* normalized.replaceAll(/_+/g, "_")
RECURSIVE CollapseUnderscores(_)
CollapseUnderscores(s) ==
    IF Len(s) < 2 THEN s
    ELSE IF s[1] = "_" /\ s[2] = "_" THEN CollapseUnderscores(Tail(s))
    ELSE <<s[1]>> \o CollapseUnderscores(Tail(s))

RECURSIVE StripLeading(_)
StripLeading(s) ==
    IF s # <<>> /\ Head(s) = "_" THEN StripLeading(Tail(s)) ELSE s

RECURSIVE StripTrailing(_)
StripTrailing(s) ==
    IF s # <<>> /\ s[Len(s)] = "_"
    THEN StripTrailing(SubSeq(s, 1, Len(s) - 1))
    ELSE s

\* a variant that strips the leading underscores only
StripUnderscoresLeadingOnly(s) == StripLeading(s)

\* s.replaceAll(/^_+|_+$/g, "")
StripUnderscores(s) == StripTrailing(StripLeading(s))

\* s.lastIndexOf("."), zero-based, -1 when s has no "."
lastIndexOfDot(s) ==
    LET at == {i \in 1..Len(s) : s[i] = "."}
    IN  IF at = {} THEN -1
        ELSE (CHOOSE i \in at : \A j \in at : j <= i) - 1

\* lines 56-63: the name is stripped, the extension kept; a string whose last
\* "." is its first character, or that has none, is stripped as a whole
EdgeTrim(s) ==
    LET lastDotIndex == lastIndexOfDot(s)
    IN  IF lastDotIndex > 0
        THEN StripUnderscores(SubSeq(s, 1, lastDotIndex))
             \o SubSeq(s, lastDotIndex + 1, Len(s))
        ELSE StripUnderscores(s)

\* Character.toUpperCase for the characters of the model
ToUpperCase(c) ==
    CASE c = "a" -> "A"
      [] c = "b" -> "B"
      [] OTHER -> c

\* lines 66-68
Capitalize(s) ==
    IF Len(s) > 0 THEN <<ToUpperCase(s[1])>> \o Tail(s) ELSE s

normalizeMediaWikiFilename(f) ==
    IF f = <<>> THEN f
    ELSE Capitalize(EdgeTrim(CollapseUnderscores(ReplaceSpaces(ReplaceForbidden(f)))))

NormChars == {"a", "_", " ", ".", ":", "[", "}"}

RECURSIVE CharSeqs(_)
CharSeqs(n) ==
    IF n = 0 THEN {<<>>}
    ELSE LET shorter == CharSeqs(n - 1)
         IN  shorter \cup {<<c>> \o t : c \in NormChars, t \in shorter}

\* every string of at most MaxLen characters
Filenames == CharSeqs(MaxLen)

\* the call: lines 37-41
NStart ==
    /\ npc = "idle"
    /\ \E f \in Filenames :
          /\ filename' = f
          /\ normalized' = f
          /\ npc' = IF f = <<>> THEN "done" ELSE "forbidden"
    /\ UNCHANGED <<tvars, kvars, cvars, hvars, svars, uvars, avars>>

\* lines 44-46
NReplaceForbidden ==
    /\ npc = "forbidden"
    /\ normalized' = ReplaceForbidden(normalized)
    /\ npc' = "spaces"
    /\ UNCHANGED <<filename, tvars, kvars, cvars, hvars, svars, uvars, avars>>

\* line 49
NReplaceSpaces ==
    /\ npc = "spaces"
    /\ normalized' = ReplaceSpaces(normalized)
    /\ npc' = "collapse"
    /\ UNCHANGED <<filename, tvars, kvars, cvars, hvars, svars, uvars, avars>>

\* line 52
NCollapse ==
    /\ npc = "collapse"
    /\ normalized' = CollapseUnderscores(normalized)
    /\ npc' = "trim"
    /\ UNCHANGED <<filename, tvars, kvars, cvars, hvars, svars, uvars, avars>>

\* lines 56-63
NEdgeTrim ==
    /\ npc = "trim"
    /\ normalized' = EdgeTrim(normalized)
    /\ npc' = "capitalize"
    /\ UNCHANGED <<filename, tvars, kvars, cvars, hvars, svars, uvars, avars>>

\* lines 66-70
NCapitalize ==
    /\ npc = "capitalize"
    /\ normalized' = Capitalize(normalized)
    /\ npc' = "done"
    /\ UNCHANGED <<filename, tvars, kvars, cvars, hvars, svars, uvars, avars>>

NormNext ==
    \/ NStart
    \/ NReplaceForbidden
    \/ NReplaceSpaces
    \/ NCollapse
    \/ NEdgeTrim
    \/ NCapitalize

SpecNorm == Init /\ [][NormNext]_vars

-----------------------------------------------------------------------------
(* Specification of the key extraction of the Fill out and Variables tabs *)

\* a body template is made of at most MaxSegments segments
MaxSegments == 3

\* the segments of a body template: placeholders for a and b, bare and
\* padded, placeholders without a key, an unclosed opening and plain text
KeySegments ==
    {Bare(KA), Open \o Space \o KA \o Space \o Close, Bare(KB),
     Open \o Close, Open \o Space \o Close, Open, <<"x">>}

RECURSIVE SegmentSeqs(_)
SegmentSeqs(n) ==
    IF n = 0 THEN {<<>>}
    ELSE LET shorter == SegmentSeqs(n - 1)
         IN  shorter \cup {s \o p : s \in shorter, p \in KeySegments}

\* 'A <<<x>>> B' and '<<<y.z>>> C'
ExampleTitle == <<"A", " ">> \o Bare(<<"x">>) \o <<" ", "B">>
ExampleBody == Bare(<<"y", ".", "z">>) \o <<" ", "C">>

TitleTemplates == {Empty, Bare(KA), Bare(KGlobal \o Dot \o KA), ExampleTitle}

BodyTemplates == SegmentSeqs(MaxSegments) \cup {ExampleBody}

\* const allKeys = extractTemplateKeys(titleTemplate + ' ' + template);
\* the extraction is a pure function of the two templates, so one evaluation
\* per behaviour covers every evaluation of the memo
ExtractKeys ==
    /\ keyTemplate = Empty
    /\ \E titleTemplate \in TitleTemplates, body \in BodyTemplates :
           /\ keyTemplate' = titleTemplate \o Space \o body
           /\ extracted' = extractTemplateKeys(titleTemplate \o Space \o body)
    /\ UNCHANGED <<tvars, nvars, cvars, hvars, svars, uvars, avars>>

KeysNext == ExtractKeys

SpecKeys == Init /\ [][KeysNext]_vars

-----------------------------------------------------------------------------
(* Specification of the context building of the Review and Fill out tabs *)

\* an image name of the enumeration has at most MaxName characters
MaxName == 3

\* the position of an image is drawn from 0..MaxIndex
MaxIndex == 5

NameChars == {"a", "J", "."}

RECURSIVE NameSeqs(_)
NameSeqs(n) ==
    IF n = 0 THEN {<<>>}
    ELSE LET shorter == NameSeqs(n - 1)
         IN  shorter \cup {Append(s, c) : s \in shorter, c \in NameChars}

PhotoJPG == <<"p", "h", "o", "t", "o", ".", "J", "P", "G">>
MyPhotoFilePng == <<"m", "y", ".", "p", "h", "o", "t", "o", ".", "f", "i", "l", "e", ".", "p", "n", "g">>
Photo == <<"p", "h", "o", "t", "o">>

Names == NameSeqs(MaxName) \cup {PhotoJPG, MyPhotoFilePng, Photo}

ExifTimestamp == <<"2", "0", "2", "4", ":", "0", "1", ":", "1", "5", " ", "1", "0", ":", "3", "0", ":", "0", "0">>
TextTimestamp == <<"2", "0", "2", "4", "-", "0", "6", "-", "1", "5", " ", "1", "4", ":", "2", "2", ":", "0", "0">>
NoTimestamp == <<"i", "n", "v", "a", "l", "i", "d", " ", "d", "a", "t", "e">>
MonthThirteen == <<"2", "0", "2", "4", ":", "1", "3", ":", "1", "5", " ", "1", "0", ":", "3", "0", ":", "0", "0">>

\* what an EXIF date field may hold: nothing, texts, a number, Date objects
DateValues ==
    {Undefined, Null, Str(Empty), Str(ExifTimestamp), Str(TextTimestamp),
     Str(NoTimestamp), Str(MonthThirteen), Num(12345),
     DateObject(2025, 2, 2, 12, 52), DateObject(2024, 11, 31, 0, 0),
     InvalidDate}

\* image.exifData: missing, or an object with the two date fields
ExifDatas ==
    {Undefined}
    \cup {Obj(Entry(KDateTimeOriginal, o) @@ Entry(KCreateDate, c)) :
             o \in DateValues, c \in DateValues}

\* createUtilityContext(image, index), for an image of the store
CreateUtility ==
    /\ ctxUtility = Undefined
    /\ \E name \in Names, exifData \in ExifDatas, i \in 0..MaxIndex :
           LET img == [name |-> name, keys |-> EmptyFields, exifData |-> exifData]
           IN  /\ ctxImage' = img
               /\ ctxIndex' = i
               /\ ctxUtility' = createUtilityContext(img, i)
    /\ UNCHANGED <<ctxGlobals, built, tvars, nvars, kvars, hvars, svars, uvars, avars>>

LocalKeyNames == {KA, KExif, KGlobal, KUtility}

\* image.keys: any of the four names, each with a text or with ''
LocalKeys ==
    UNION {[names -> {Str(<<"x">>), Str(Empty)}] : names \in SUBSET LocalKeyNames}

GlobalVariableSets == {EmptyFields, KA :> Str(<<" ", "g">>)}

ContextExifDatas ==
    {Undefined, Obj(EmptyFields), Obj(KDateTimeOriginal :> Str(ExifTimestamp)),
     Obj(KA :> Num(7))}

\* { ...currentImage.keys, global: globalVariables,
\*   exif: currentImage.exifData, utility: createUtilityContext(...) }
BuildContextFillOut(keys, exifData, globalVariables, utility) ==
    Obj(Spread(keys, (KGlobal :> Obj(globalVariables))
                     @@ (KExif :> exifData)
                     @@ (KUtility :> utility)))

\* the context of one image of processedImages (Review tab)
BuildForReview ==
    /\ ctxUtility = Undefined
    /\ \E keys \in LocalKeys, globals \in GlobalVariableSets,
          exifData \in ContextExifDatas, i \in 0..MaxIndex :
           LET img == [name |-> PhotoJPG, keys |-> keys, exifData |-> exifData]
           IN  /\ ctxImage' = img
               /\ ctxIndex' = i
               /\ ctxGlobals' = globals
               /\ ctxUtility' = createUtilityContext(img, i)
               /\ built' = BuildContext(img.keys, ExifOrEmpty(img.exifData),
                                        globals, createUtilityContext(img, i))
    /\ UNCHANGED <<tvars, nvars, kvars, hvars, svars, uvars, avars>>

\* the templateContext of the current image (Fill out tab)
BuildForFillOut ==
    /\ ctxUtility = Undefined
    /\ \E keys \in LocalKeys, globals \in GlobalVariableSets,
          exifData \in ContextExifDatas, i \in 0..MaxIndex :
           LET img == [name |-> Photo, keys |-> keys, exifData |-> exifData]
           IN  /\ ctxImage' = img
               /\ ctxIndex' = i
               /\ ctxGlobals' = globals
               /\ ctxUtility' = createUtilityContext(img, i)
               /\ built' = BuildContextFillOut(img.keys, img.exifData, globals,
                                               createUtilityContext(img, i))
    /\ UNCHANGED <<tvars, nvars, kvars, hvars, svars, uvars, avars>>

ContextNext == CreateUtility \/ BuildForReview \/ BuildForFillOut

SpecContext == Init /\ [][ContextNext]_vars

-----------------------------------------------------------------------------
(* Specification of the hook useImageUrl *)

\* the effect of the hook runs at most MaxEffects times
MaxEffects == 3

FailedToLoad == <<"F", "a", "i", "l", "e", "d", " ", "t", "o", " ", "l", "o", "a", "d", " ", "i", "m", "a", "g", "e">>

\* a reducer that takes every response, whatever its imageId
imageDataReducerAnyId(st, action) ==
    CASE action.type = "LOAD_START"
            -> [st EXCEPT !.isLoading = TRUE, !.error = Undefined,
                          !.imageId = action.imageId]
      [] action.type = "LOAD_SUCCESS"
            -> [imageUrl |-> action.imageUrl, isLoading |-> FALSE,
                error |-> Undefined, imageId |-> action.imageId]
      [] action.type = "LOAD_ERROR"
            -> [imageUrl |-> Undefined, isLoading |-> FALSE,
                error |-> action.error, imageId |-> action.imageId]
      [] action.type = "RESET"
            -> [imageUrl |-> Undefined, isLoading |-> FALSE,
                error |-> Undefined, imageId |-> Undefined]
      [] OTHER -> st

\* imageDataReducer
imageDataReducer(st, action) ==
    CASE action.type = "LOAD_START"
            -> [st EXCEPT !.isLoading = TRUE, !.error = Undefined,
                          !.imageId = action.imageId]
      [] action.type = "LOAD_SUCCESS"
            -> IF st.imageId # action.imageId THEN st
               ELSE [imageUrl |-> action.imageUrl, isLoading |-> FALSE,
                     error |-> Undefined, imageId |-> action.imageId]
      [] action.type = "LOAD_ERROR"
            -> IF st.imageId # action.imageId THEN st
               ELSE [imageUrl |-> Undefined, isLoading |-> FALSE,
                     error |-> action.error, imageId |-> action.imageId]
      [] action.type = "RESET"
            -> [imageUrl |-> Undefined, isLoading |-> FALSE,
                error |-> Undefined, imageId |-> Undefined]
      [] OTHER -> st

\* dispatch(action): React drops the update of a component that has unmounted
Dispatch(action) == IF mounted THEN imageDataReducer(state, action) ELSE state

\* the nth object URL that URL.createObjectURL hands out
ObjectUrl(n) == Str(<<"b", "l", "o", "b", ":">> \o Digits(n))

\* the effect has yet to run for the imageId of the latest render
EffectPending ==
    /\ mounted
    /\ IF effects = <<>> THEN TRUE ELSE effects[Len(effects)].imageId # imageId

\* the cleanup function of effect run e: if (objectUrl) revokeObjectURL
CleanedUp(e) == [effects EXCEPT ![e].cleaned = TRUE]
RevokedBy(e) ==
    IF effects[e].objectUrl # Undefined THEN {effects[e].objectUrl} ELSE {}

\* the component mounts: useMemo and useReducer set the initial state
Mount ==
    /\ ~mounted
    /\ effects = <<>>
    /\ \E id \in ImageIds \cup {Undefined} :
           /\ imageId' = id
           /\ state' = [imageUrl |-> Undefined, isLoading |-> id # Undefined,
                        error |-> Undefined, imageId |-> id]
    /\ mounted' = TRUE
    /\ UNCHANGED <<effects, created, revoked, tvars, nvars, kvars, cvars, svars, uvars, avars>>

\* the component renders again with another imageId
Rerender ==
    /\ mounted
    /\ ~EffectPending
    /\ Len(effects) < MaxEffects
    /\ \E id \in (ImageIds \cup {Undefined}) \ {imageId} : imageId' = id
    /\ UNCHANGED <<mounted, state, effects, created, revoked,
                   tvars, nvars, kvars, cvars, svars, uvars, avars>>

\* React runs the cleanup of the previous effect, then the effect: lines 106-134
FlushEffect ==
    /\ EffectPending
    /\ LET n == Len(effects)
           cleaned == IF n > 0 THEN CleanedUp(n) ELSE effects
       IN  /\ revoked' = IF n > 0 THEN revoked \cup RevokedBy(n) ELSE revoked
           /\ effects' = Append(cleaned,
                                [imageId |-> imageId,
                                 settled |-> imageId = Undefined,
                                 objectUrl |-> Undefined,
                                 cleaned |-> FALSE])
    /\ state' = IF imageId = Undefined
                THEN Dispatch([type |-> "RESET"])
                ELSE Dispatch([type |-> "LOAD_START", imageId |-> imageId])
    /\ UNCHANGED <<imageId, mounted, created, tvars, nvars, kvars, cvars, svars, uvars, avars>>

\* the component unmounts: React runs the cleanup of the last effect
Unmount ==
    /\ mounted
    /\ ~EffectPending
    /\ mounted' = FALSE
    /\ effects' = CleanedUp(Len(effects))
    /\ revoked' = revoked \cup RevokedBy(Len(effects))
    /\ UNCHANGED <<imageId, state, created, tvars, nvars, kvars, cvars, svars, uvars, avars>>

\* the promise of effect run e resolves with a new object URL:
\* getImageObjectUrl found the blob, then(url) runs (lines 116-119)
ResolveWithUrl(e) ==
    /\ ~effects[e].settled
    /\ LET url == ObjectUrl(Cardinality(created) + 1)
       IN  /\ created' = created \cup {url}
           /\ effects' = [effects EXCEPT ![e].settled = TRUE, ![e].objectUrl = url]
           /\ state' = Dispatch([type |-> "LOAD_SUCCESS", imageUrl |-> url,
                                 imageId |-> effects[e].imageId])
    /\ UNCHANGED <<imageId, mounted, revoked, tvars, nvars, kvars, cvars, svars, uvars, avars>>

\* the promise resolves with undefined: no blob is stored under the id
ResolveWithoutUrl(e) ==
    /\ ~effects[e].settled
    /\ effects' = [effects EXCEPT ![e].settled = TRUE]
    /\ state' = Dispatch([type |-> "LOAD_SUCCESS", imageUrl |-> Str(Empty),
                          imageId |-> effects[e].imageId])
    /\ UNCHANGED <<imageId, mounted, created, revoked, tvars, nvars, kvars, cvars, svars, uvars, avars>>

\* the promise rejects: catch runs (lines 120-127)
Reject(e) ==
    /\ ~effects[e].settled
    /\ effects' = [effects EXCEPT ![e].settled = TRUE]
    /\ state' = Dispatch([type |-> "LOAD_ERROR", error |-> Str(FailedToLoad),
                          imageId |-> effects[e].imageId])
    /\ UNCHANGED <<imageId, mounted, created, revoked, tvars, nvars, kvars, cvars, svars, uvars, avars>>

Resolve == \E e \in 1..Len(effects) : ResolveWithUrl(e)
ResolveEmpty == \E e \in 1..Len(effects) : ResolveWithoutUrl(e)
Fail == \E e \in 1..Len(effects) : Reject(e)

HookNext ==
    Mount \/ Rerender \/ FlushEffect \/ Unmount \/ Resolve \/ ResolveEmpty \/ Fail

\* React runs a pending effect, and a promise settles
HookFairness ==
    /\ WF_vars(FlushEffect)
    /\ WF_vars(Resolve \/ ResolveEmpty \/ Fail)

SpecHook == Init /\ [][HookNext]_vars /\ HookFairness

-----------------------------------------------------------------------------
(* The image store and blob storage *)

\* crypto.randomUUID hands out at most MaxImages ids
MaxImages == 2

\* at most MaxOps operations await blob storage at once
MaxOps == 2

\* images[id] of an id that has no entry: undefined, which spreads to nothing
NoImage ==
    [has |-> {}, id |-> 0, name |-> <<>>, keys |-> EmptyFields,
     exifData |-> Undefined, reviewed |-> FALSE, uploaded |-> FALSE,
     uploadStatus |-> "undefined", uploadError |-> "undefined"]

\* the entry addImage writes; has lists the properties the object holds
NewImage(id) ==
    [has |-> {"id", "name", "mimeType", "keys", "exifData", "reviewed"},
     id |-> id, name |-> PhotoJPG, keys |-> EmptyFields,
     exifData |-> Undefined, reviewed |-> FALSE, uploaded |-> FALSE,
     uploadStatus |-> "undefined", uploadError |-> "undefined"]

\* Object.keys(images): the keys in insertion order
ObjectKeys(imgs) == [k \in 1..Len(imgs) |-> imgs[k].key]

KeySet(imgs) == {imgs[k].key : k \in 1..Len(imgs)}

\* id in images
HasKey(imgs, id) == id \in KeySet(imgs)

\* images[id]
ValueOf(imgs, id) ==
    IF HasKey(imgs, id)
    THEN imgs[CHOOSE k \in 1..Len(imgs) : imgs[k].key = id].value
    ELSE NoImage

\* {...images, [id]: value}: a key that exists keeps its place
WithEntry(imgs, id, value) ==
    IF HasKey(imgs, id)
    THEN [k \in 1..Len(imgs) |->
             IF imgs[k].key = id THEN [key |-> id, value |-> value] ELSE imgs[k]]
    ELSE Append(imgs, [key |-> id, value |-> value])

\* const {[imageId]: _removed, ...rest} = images
WithoutEntry(imgs, id) == SelectSeq(imgs, LAMBDA en : en.key # id)

\* imageOrder.filter(id => id !== imageId)
WithoutId(order, id) == SelectSeq(order, LAMBDA x : x # id)

\* newOrder.splice(fromIndex, 1) and newOrder.splice(toIndex, 0, movedId),
\* with indices counted from 0
Spliced(order, fromIndex, toIndex) ==
    LET movedId == order[fromIndex + 1]
        newOrder == SubSeq(order, 1, fromIndex)
                    \o SubSeq(order, fromIndex + 2, Len(order))
    IN  SubSeq(newOrder, 1, toIndex) \o <<movedId>>
        \o SubSeq(newOrder, toIndex + 1, Len(newOrder))

\* a Review tab that lists the images by the keys of images alone
imageIdsByKeys(imgs, order) == ObjectKeys(imgs)

\* Review tab, lines 297 to 302
imageIds(imgs, order) ==
    IF Len(order) > 0
    THEN SelectSeq(order, LAMBDA id : HasKey(imgs, id))
    ELSE ObjectKeys(imgs)

\* Review tab, lines 308 to 321: imageIds.map((id, index) => ...), the image
\* and the position of every entry; image.name.includes throws for an entry
\* without a name
processedImages(imgs, order) ==
    LET ids == imageIds(imgs, order)
    IN  IF \E k \in 1..Len(ids) : "name" \notin ValueOf(imgs, ids[k]).has
        THEN [threw |-> TRUE, items |-> <<>>]
        ELSE [threw |-> FALSE,
              items |-> [k \in 1..Len(ids) |->
                            [id |-> ids[k],
                             image |-> ValueOf(imgs, ids[k]),
                             index |-> k - 1]]]

\* utility: createUtilityContext(image, index) of an entry of processedImages
UtilityOf(item) == createUtilityContext(item.image, item.index)

\* set(...): the store takes the new images and imageOrder and the Review tab
\* renders again
SetStore(imgs, order) ==
    /\ images' = imgs
    /\ imageOrder' = order
    /\ rendered' = processedImages(imgs, order)

AwaitingOp(op, id, ids) == [op |-> op, id |-> id, ids |-> ids]

\* addImage up to its await: a new id, and the blob on its way to storage
AddImageCall ==
    /\ issued < MaxImages
    /\ Cardinality(inFlight) < MaxOps
    /\ issued' = issued + 1
    /\ inFlight' = inFlight \cup {AwaitingOp("addImage", issued + 1, {})}
    /\ UNCHANGED <<images, imageOrder, blobs, rendered,
                   tvars, nvars, kvars, cvars, hvars, uvars, avars>>

\* store.put succeeds and addImage goes on: lines 153 to 171
AddImageDone ==
    \E o \in inFlight :
        /\ o.op = "addImage"
        /\ blobs' = blobs \cup {o.id}
        /\ SetStore(WithEntry(images, o.id, NewImage(o.id)),
                    Append(imageOrder, o.id))
        /\ inFlight' = inFlight \ {o}
        /\ UNCHANGED <<issued, tvars, nvars, kvars, cvars, hvars, uvars, avars>>

\* removeImage(imageId) up to its await, for an image the Upload tab lists
RemoveImageCall ==
    /\ Cardinality(inFlight) < MaxOps
    /\ \E id \in KeySet(images) :
           inFlight' = inFlight \cup {AwaitingOp("removeImage", id, {})}
    /\ UNCHANGED <<images, imageOrder, blobs, issued, rendered,
                   tvars, nvars, kvars, cvars, hvars, uvars, avars>>

\* store.delete succeeds and removeImage goes on: lines 177 to 189
RemoveImageDone ==
    \E o \in inFlight :
        /\ o.op = "removeImage"
        /\ blobs' = blobs \ {o.id}
        /\ SetStore(WithoutEntry(images, o.id), WithoutId(imageOrder, o.id))
        /\ inFlight' = inFlight \ {o}
        /\ UNCHANGED <<issued, tvars, nvars, kvars, cvars, hvars, uvars, avars>>

\* clearAllImages up to its await: it reads the keys of images, lines 275 to 280
ClearAllImagesCall ==
    /\ Cardinality(inFlight) < MaxOps
    /\ inFlight' = inFlight
                   \cup {AwaitingOp("clearAllImages", 0, KeySet(images))}
    /\ UNCHANGED <<images, imageOrder, blobs, issued, rendered,
                   tvars, nvars, kvars, cvars, hvars, uvars, avars>>

\* the deletes succeed and clearAllImages goes on: lines 282 to 289
ClearAllImagesDone ==
    \E o \in inFlight :
        /\ o.op = "clearAllImages"
        /\ blobs' = blobs \ o.ids
        /\ SetStore(<<>>, <<>>)
        /\ inFlight' = inFlight \ {o}
        /\ UNCHANGED <<issued, tvars, nvars, kvars, cvars, hvars, uvars, avars>>

\* reorderImages(fromIndex, toIndex) with both indices in range
ReorderImages ==
    /\ Len(imageOrder) >= 2
    /\ \E fromIndex \in 0..(Len(imageOrder) - 1),
          toIndex \in 0..(Len(imageOrder) - 1) :
           /\ fromIndex # toIndex
           /\ SetStore(images, Spliced(imageOrder, fromIndex, toIndex))
    /\ UNCHANGED <<blobs, issued, inFlight,
                   tvars, nvars, kvars, cvars, hvars, uvars, avars>>

\* updateImageKeys(imageId, keys): images[imageId] is spread, then keys is set
updateImageKeys(imgs, id, keys) ==
    LET old == ValueOf(imgs, id)
    IN  WithEntry(imgs, id,
                  [old EXCEPT !.has = @ \cup {"keys"}, !.keys = keys])

\* setImageReviewed(imageId, reviewed)
setImageReviewed(imgs, id, reviewed) ==
    LET old == ValueOf(imgs, id)
    IN  WithEntry(imgs, id,
                  [old EXCEPT !.has = @ \cup {"reviewed"}, !.reviewed = reviewed])

\* setImageUploaded(imageId, uploaded, uploadUrl)
setImageUploaded(imgs, id, uploaded) ==
    LET old == ValueOf(imgs, id)
    IN  WithEntry(imgs, id,
                  [old EXCEPT !.has = @ \cup {"uploaded", "uploadUrl", "uploadStatus"},
                              !.uploaded = uploaded,
                              !.uploadStatus = IF uploaded THEN "success"
                                               ELSE "undefined"])

\* setImageUploadStatus(imageId, status, error)
setImageUploadStatus(imgs, id, status, error) ==
    LET old == ValueOf(imgs, id)
    IN  WithEntry(imgs, id,
                  [old EXCEPT !.has = @ \cup {"uploadStatus", "uploadError"},
                              !.uploadStatus = status,
                              !.uploadError = error])

\* the ids a caller can hold: those addImage has returned
KnownIds == (1..issued) \ {o.id : o \in {x \in inFlight : x.op = "addImage"}}

FilledKeys == KA :> Str(<<"v">>)

\* the error texts of the Review tab
NotFound == "Image data not found"
UploadFailed == "Upload failed"

\* the message of an error that getImageAsFile or uploadFile throws
Thrown == "Network error"

\* a setter leaves imageOrder, blob storage and the operations alone
SetterFrame ==
    UNCHANGED <<blobs, issued, inFlight,
                tvars, nvars, kvars, cvars, hvars, uvars, avars>>

CallUpdateImageKeys ==
    /\ \E id \in KnownIds :
           SetStore(updateImageKeys(images, id, FilledKeys), imageOrder)
    /\ SetterFrame

CallSetImageReviewed ==
    /\ \E id \in KnownIds, reviewed \in BOOLEAN :
           SetStore(setImageReviewed(images, id, reviewed), imageOrder)
    /\ SetterFrame

CallSetImageUploaded ==
    /\ \E id \in KnownIds :
           SetStore(setImageUploaded(images, id, TRUE), imageOrder)
    /\ SetterFrame

CallSetImageUploadStatus ==
    /\ \E id \in KnownIds :
           SetStore(setImageUploadStatus(images, id, "error", NotFound),
                    imageOrder)
    /\ SetterFrame

BlobNext ==
    \/ AddImageCall \/ AddImageDone
    \/ RemoveImageCall \/ RemoveImageDone
    \/ ClearAllImagesCall \/ ClearAllImagesDone
    \/ ReorderImages

\* addImage, removeImage, clearAllImages and reorderImages in every interleaving
SpecBlobs == Init /\ [][BlobNext]_vars

StoreNext ==
    \/ AddImageCall \/ AddImageDone
    \/ RemoveImageCall \/ RemoveImageDone
    \/ ClearAllImagesCall \/ ClearAllImagesDone
    \/ ReorderImages
    \/ CallUpdateImageKeys \/ CallSetImageReviewed
    \/ CallSetImageUploaded \/ CallSetImageUploadStatus

\* every operation of the store on the images, in every interleaving
SpecStore == Init /\ [][StoreNext]_vars

-----------------------------------------------------------------------------
(* Upload all, on the Review tab *)

\* reviewedCount === imageIds.length && imageIds.length > 0
allReviewed(imgs, order) ==
    LET reviewedCount ==
            Cardinality({k \in 1..Len(imgs) : imgs[k].value.reviewed})
    IN  reviewedCount = Len(imageIds(imgs, order))
        /\ Len(imageIds(imgs, order)) > 0

\* for (const id of imageIds) if (images[id].reviewed)
\*     setImageUploadStatus(id, 'pending')
RECURSIVE MarkPending(_, _, _)
MarkPending(imgs, items, k) ==
    IF k > Len(items) THEN imgs
    ELSE MarkPending(IF items[k].reviewed
                     THEN setImageUploadStatus(imgs, items[k].id, "pending",
                                               "undefined")
                     ELSE imgs,
                     items, k + 1)

\* the next image of the loop that passes if (!image.reviewed) continue;
\* 0 when the loop is over
NextReviewed(items, pos) ==
    LET later == {k \in (pos + 1)..Len(items) : items[k].reviewed}
    IN  IF later = {} THEN 0 ELSE CHOOSE k \in later : \A j \in later : k <= j

\* the loop goes on after the image at pos: it marks the next reviewed image
\* of its snapshot as uploading and awaits getImageAsFile, or it ends with
\* setIsUploading(false)
Continue(imgs, items, pos) ==
    LET next == NextReviewed(items, pos)
    IN  IF next = 0
        THEN /\ SetStore(imgs, imageOrder)
             /\ run' = [stage |-> "idle", items |-> <<>>, pos |-> 0,
                        reviewed |-> FALSE]
             /\ isUploading' = FALSE
        ELSE /\ SetStore(setImageUploadStatus(imgs, items[next].id,
                                              "uploading", "undefined"),
                         imageOrder)
             /\ run' = [stage |-> "file", items |-> items, pos |-> next,
                        reviewed |-> ValueOf(imgs, items[next].id).reviewed]
             /\ isUploading' = TRUE

\* the image the run is working on
CurrentId == run.items[run.pos].id

\* if (!file): setImageUploadStatus(id, 'error', 'Image data not found')
\* a handler that leaves the status of an image without data as it is
OnFileMissingSilent(imgs, id) == imgs

OnFileMissing(imgs, id) == setImageUploadStatus(imgs, id, "error", NotFound)

\* catch: setImageUploadStatus(id, 'error', error.message)
OnThrow(imgs, id) == setImageUploadStatus(imgs, id, "error", Thrown)

UploadFrame ==
    UNCHANGED <<blobs, issued, inFlight, tvars, nvars, kvars, cvars, hvars, avars>>

\* a click on a ready checkbox, which the card shows unless the status is
\* success, uploading or pending
ToggleReviewed ==
    /\ ~rendered.threw
    /\ \E k \in 1..Len(rendered.items) :
           LET id == rendered.items[k].id
               image == rendered.items[k].image
           IN  /\ image.uploadStatus \notin {"success", "uploading", "pending"}
               /\ SetStore(setImageReviewed(images, id, ~image.reviewed),
                           imageOrder)
    /\ UNCHANGED <<isUploading, run, uploadCalls>>
    /\ UploadFrame

\* for (const id of imageIds) setImageReviewed(id, reviewed)
RECURSIVE SetAllReviewed(_, _, _, _)
SetAllReviewed(imgs, ids, k, reviewed) ==
    IF k > Len(ids) THEN imgs
    ELSE SetAllReviewed(setImageReviewed(imgs, ids[k], reviewed), ids, k + 1,
                        reviewed)

\* Unmark all: toggleAllReviewed(false)
UnmarkAll ==
    /\ Len(imageIds(images, imageOrder)) > 0
    /\ SetStore(SetAllReviewed(images, imageIds(images, imageOrder), 1, FALSE),
                imageOrder)
    /\ UNCHANGED <<isUploading, run, uploadCalls>>
    /\ UploadFrame

\* a click on the Upload button of an authenticated user: handleUploadAll up
\* to its first await, with the images of the render the button belongs to
UploadClick ==
    /\ run.stage = "idle"
    /\ ~isUploading
    /\ ~rendered.threw
    /\ allReviewed(images, imageOrder)
    /\ LET items == [k \in 1..Len(rendered.items) |->
                        [id |-> rendered.items[k].id,
                         reviewed |-> rendered.items[k].image.reviewed]]
       IN  Continue(MarkPending(images, items, 1), items, 0)
    /\ UNCHANGED uploadCalls
    /\ UploadFrame

\* getImageAsFile resolves with a file and uploadFile is called
FileFound ==
    /\ run.stage = "file"
    /\ run' = [run EXCEPT !.stage = "upload"]
    /\ uploadCalls' = uploadCalls
                       \cup {[reviewed |-> run.reviewed,
                               uploaded |-> ValueOf(images, CurrentId).uploaded]}
    /\ UNCHANGED <<images, imageOrder, rendered, isUploading>>
    /\ UploadFrame

\* getImageAsFile resolves with undefined
FileMissing ==
    /\ run.stage = "file"
    /\ Continue(OnFileMissing(images, CurrentId), run.items, run.pos)
    /\ UNCHANGED uploadCalls
    /\ UploadFrame

\* getImageAsFile throws
FileThrows ==
    /\ run.stage = "file"
    /\ Continue(OnThrow(images, CurrentId), run.items, run.pos)
    /\ UNCHANGED uploadCalls
    /\ UploadFrame

\* uploadFile resolves with success
UploadSucceeds ==
    /\ run.stage = "upload"
    /\ Continue(setImageUploaded(images, CurrentId, TRUE), run.items, run.pos)
    /\ UNCHANGED uploadCalls
    /\ UploadFrame

\* uploadFile resolves with warnings
UploadWarns ==
    /\ run.stage = "upload"
    /\ Continue(setImageUploadStatus(images, CurrentId, "warning", "undefined"),
                run.items, run.pos)
    /\ UNCHANGED uploadCalls
    /\ UploadFrame

\* uploadFile resolves with neither success nor warnings
UploadFails ==
    /\ run.stage = "upload"
    /\ Continue(setImageUploadStatus(images, CurrentId, "error", UploadFailed),
                run.items, run.pos)
    /\ UNCHANGED uploadCalls
    /\ UploadFrame

\* uploadFile throws
UploadThrows ==
    /\ run.stage = "upload"
    /\ Continue(OnThrow(images, CurrentId), run.items, run.pos)
    /\ UNCHANGED uploadCalls
    /\ UploadFrame

\* the images of an earlier session: n calls of addImage, one after the other
RECURSIVE StoredImages(_)
StoredImages(n) ==
    IF n = 0 THEN <<>>
    ELSE Append(StoredImages(n - 1), [key |-> n, value |-> NewImage(n)])

\* persist: the store comes back as an earlier session left it in
\* image-set-storage, here with one to MaxImages images
Rehydrate ==
    /\ issued = 0
    /\ inFlight = {}
    /\ images = <<>>
    /\ \E n \in 1..MaxImages :
           /\ SetStore(StoredImages(n), [k \in 1..n |-> k])
           /\ blobs' = 1..n
           /\ issued' = n
    /\ UNCHANGED <<inFlight, uvars, tvars, nvars, kvars, cvars, hvars, avars>>

FileSettles == FileFound \/ FileMissing \/ FileThrows

UploadSettles == UploadSucceeds \/ UploadWarns \/ UploadFails \/ UploadThrows

UploadNext ==
    \/ Rehydrate
    \/ ToggleReviewed \/ UnmarkAll
    \/ UploadClick
    \/ FileFound \/ FileMissing \/ FileThrows
    \/ UploadSucceeds \/ UploadWarns \/ UploadFails \/ UploadThrows

\* the promises of getImageAsFile and of uploadFile settle
UploadFairness == WF_vars(FileSettles) /\ WF_vars(UploadSettles)

SpecUpload == Init /\ [][UploadNext]_vars /\ UploadFairness

-----------------------------------------------------------------------------
(* The cache of object URLs: getCachedImageUrl and releaseImageUrl *)

\* getImageObjectUrl makes at most MaxUrls object URLs, and a reference count
\* goes up to MaxUrls
MaxUrls == 3

\* imageUrlCache[imageId] = {url, refCount}
Cached(cache, id, url, refCount) ==
    [x \in DOMAIN cache \cup {id} |->
        IF x = id THEN [url |-> url, refCount |-> refCount] ELSE cache[x]]

\* delete imageUrlCache[imageId]
Deleted(cache, id) == [x \in DOMAIN cache \ {id} |-> cache[x]]

\* the calls of getCachedImageUrl that await getImageObjectUrl
Awaited == getting[Str(<<"1">>)] + getting[Str(<<"2">>)]

CacheFrame == UNCHANGED <<tvars, nvars, kvars, cvars, hvars, svars, uvars>>

\* getCachedImageUrl(imageId) finds an entry: lines 193 to 196
GetCached ==
    /\ \E id \in DOMAIN imageUrlCache :
           LET entry == imageUrlCache[id]
           IN  /\ entry.refCount < MaxUrls
               /\ imageUrlCache' = Cached(imageUrlCache, id, entry.url,
                                          entry.refCount + 1)
               /\ holding' = [holding EXCEPT ![entry.url] = @ + 1]
    /\ UNCHANGED <<getting, urlsCreated, urlsRevoked>>
    /\ CacheFrame

\* getCachedImageUrl(imageId) finds no entry and awaits getImageObjectUrl
GetAwaits ==
    /\ \E id \in ImageIds \ DOMAIN imageUrlCache :
           /\ Len(urlsCreated) + Awaited < MaxUrls
           /\ getting' = [getting EXCEPT ![id] = @ + 1]
    /\ UNCHANGED <<imageUrlCache, holding, urlsCreated, urlsRevoked>>
    /\ CacheFrame

\* getImageObjectUrl resolves with a new object URL: lines 199 to 202
GetResolves ==
    /\ \E id \in ImageIds :
           /\ getting[id] > 0
           /\ LET url == Len(urlsCreated) + 1
              IN  /\ urlsCreated' = Append(urlsCreated, id)
                  /\ imageUrlCache' = Cached(imageUrlCache, id, url, 1)
                  /\ holding' = Append(holding, 1)
           /\ getting' = [getting EXCEPT ![id] = @ - 1]
    /\ UNCHANGED urlsRevoked
    /\ CacheFrame

\* releaseImageUrl(imageId) by a caller that holds an object URL of the image
ReleaseImageUrl ==
    /\ \E url \in 1..Len(holding) :
           /\ holding[url] > 0
           /\ holding' = [holding EXCEPT ![url] = @ - 1]
           /\ LET id == urlsCreated[url]
              IN  IF id \notin DOMAIN imageUrlCache
                  THEN UNCHANGED <<imageUrlCache, urlsRevoked>>
                  ELSE LET cached == imageUrlCache[id]
                       IN  IF cached.refCount - 1 <= 0
                           THEN /\ urlsRevoked' = urlsRevoked \cup {cached.url}
                                /\ imageUrlCache' = Deleted(imageUrlCache, id)
                           ELSE /\ imageUrlCache' =
                                       Cached(imageUrlCache, id, cached.url,
                                              cached.refCount - 1)
                                /\ UNCHANGED urlsRevoked
    /\ UNCHANGED <<getting, urlsCreated>>
    /\ CacheFrame

CacheNext == GetCached \/ GetAwaits \/ GetResolves \/ ReleaseImageUrl

SpecCache == Init /\ [][CacheNext]_vars

-----------------------------------------------------------------------------
(* Properties of the render engine *)

\* the value of the local key k, and the value of k in the layer ns
LocalValue(ctx, k) == Prop(ctx.fields, k)
LayerValue(ctx, ns, k) ==
    LET layer == Prop(ctx.fields, ns)
    IN  IF layer.kind = "object" THEN Prop(layer.fields, k) ELSE Undefined

\* the template holds the one placeholder k
UsesKey(k) == template \in {Bare(k), Padded(k)}

\* the placeholder k of the template has been rendered as text
RenderedAs(k, text) ==
    \/ template = Bare(k) /\ result = text
    \/ template = Padded(k) /\ result = <<"p">> \o text \o <<"q">>

Namespaces == {KGlobal, KExif, KUtility}

\* the positions of s at which the placeholder pattern matches
PlaceholdersAt(s) ==
    {i \in 1..Len(s) : IsAt(s, i, Open) /\ FindClose(s, i + 3) # 0}

\* C1: when applyTemplate has returned, whatever the template, the context and
\* maxIterations >= 0, every match of the placeholder pattern in the rendered
\* string is the sentinel <<<missing>>>
C1_OnlySentinelRemains ==
    pc = "done" =>
        \A i \in PlaceholdersAt(result) :
            SubSeq(result, i, FindClose(result, i + 3) + 2) = MISSING_PLACEHOLDER

\* a template with a placeholder of another key, rendered with no loop pass,
\* holds the sentinel in its place
C1_Witness ==
    /\ pc = "done"
    /\ maxIterations = 0
    /\ Len(Matches(template, 1)) >= 1
    /\ Matches(template, 1)[1].key # KMissing
    /\ PlaceholdersAt(result) # {}

\* C2: an un-prefixed key whose local value is absent or empty renders as the
\* trimmed global value when global.k is non-empty, and as the sentinel only
\* when the global value is absent or empty too
C2_GlobalFallback ==
    \A k \in {KA} :
        (/\ pc = "done"
         /\ maxIterations >= 1
         /\ UsesKey(k)
         /\ ~IsPresent(LocalValue(context, k)))
        => IF IsPresent(LayerValue(context, KGlobal, k))
           THEN RenderedAs(k, Trim(String(LayerValue(context, KGlobal, k))))
           ELSE RenderedAs(k, MISSING_PLACEHOLDER)

\* C3: a prefixed key global.k, exif.k or utility.k whose own layer has no
\* non-empty k renders as the sentinel, whatever the local layer and the other
\* layers hold under k
C3_PrefixedStaysInLayer ==
    \A ns \in Namespaces :
        (/\ pc = "done"
         /\ UsesKey(ns \o Dot \o KA)
         /\ ~IsPresent(LayerValue(context, ns, KA)))
        => RenderedAs(ns \o Dot \o KA, MISSING_PLACEHOLDER)

\* <<<global.a>>> rendered as the sentinel although a is set locally and in exif
C3_Witness ==
    /\ pc = "done"
    /\ maxIterations >= 1
    /\ template = Bare(KGlobal \o Dot \o KA)
    /\ IsPresent(LocalValue(context, KA))
    /\ IsPresent(LayerValue(context, KExif, KA))
    /\ ~IsPresent(LayerValue(context, KGlobal, KA))
    /\ result = MISSING_PLACEHOLDER

\* C4: an un-prefixed key with a non-empty local value is substituted by the
\* trimmed local value in the first pass of a render (maxIterations >= 1),
\* whatever global.k holds, and that is the rendered text when the local value
\* holds no placeholder itself
C4_LocalWins ==
    (/\ pc # "idle"
     /\ maxIterations >= 1
     /\ UsesKey(KA)
     /\ IsPresent(LocalValue(context, KA)))
    => LET local == Trim(String(LocalValue(context, KA)))
       IN  /\ (pc = "loop" /\ iteration = 1) => RenderedAs(KA, local)
           /\ (pc = "done" /\ Matches(local, 1) = <<>>) => RenderedAs(KA, local)

\* <<<a>>> rendered from the local " x " although global.a is set
C4_Witness ==
    /\ pc = "done"
    /\ template = Bare(KA)
    /\ LocalValue(context, KA) = Str(<<" ", "x", " ">>)
    /\ IsPresent(LayerValue(context, KGlobal, KA))
    /\ result = <<"x">>

\* C5: applyTemplate makes at most maxIterations loop passes, then the final
\* pass once, and returns (when the loop cannot go on, the final pass can run);
\* the direct cycle a = "<<<a>>>" renders <<<a>>> as the sentinel
C5_BoundedPasses ==
    /\ iteration <= maxIterations
    /\ finalPasses = (IF pc = "done" THEN 1 ELSE 0)
    /\ (pc = "loop" /\ ~LoopCondition) => ENABLED FinalPass
    /\ (/\ pc = "done"
        /\ template = Bare(KA)
        /\ LocalValue(context, KA) = Str(Placeholder(KA)))
       => result = MISSING_PLACEHOLDER

\* the direct cycle rendered with the default maxIterations
C5_Witness ==
    /\ pc = "done"
    /\ template = Bare(KA)
    /\ LocalValue(context, KA) = Str(Placeholder(KA))
    /\ maxIterations = DefaultMaxIterations
    /\ result = MISSING_PLACEHOLDER

\* the value a key resolves to: the local value of an un-prefixed key, the
\* value in its own layer of a prefixed one
Resolution(ctx, k) ==
    IF k \in {KA, KB, KMissing} THEN LocalValue(ctx, k)
    ELSE IF k = KGlobal \o Dot \o KA THEN LayerValue(ctx, KGlobal, KA)
    ELSE IF k = KExif \o Dot \o KA THEN LayerValue(ctx, KExif, KA)
    ELSE IF k = KUtility \o Dot \o KA THEN LayerValue(ctx, KUtility, KA)
    ELSE LayerValue(ctx, KUtility, KIndex)

\* C6: a placeholder whose key resolves to nothing (absent, null or "") is
\* rendered as the sentinel, once, and never as the empty string; <<<missing>>>
\* against the empty context renders as the sentinel
C6_MissingIsSentinel ==
    \A k \in ResolveKeys :
        (/\ pc = "done"
         /\ UsesKey(k)
         /\ ~IsPresent(Resolution(context, k)))
        => RenderedAs(k, MISSING_PLACEHOLDER)

\* <<<missing>>> rendered against the empty context
C6_Witness ==
    /\ pc = "done"
    /\ template = Bare(KMissing)
    /\ context = Obj(EmptyFields)
    /\ maxIterations = DefaultMaxIterations
    /\ result = MISSING_PLACEHOLDER

\* C7: malformed placeholder syntax (<<<a, a>>>, <<<>>>) is left as literal text
\* by applyTemplate and yields no key in extractTemplateKeys
C7_MalformedLeftLiteral ==
    (pc = "done" /\ template \in {Open \o KA, KA \o Close, Open \o Close})
    => (result = template /\ extractTemplateKeys(template) = <<>>)

-----------------------------------------------------------------------------
(* Properties of the title normaliser *)

HasDot(s) == \E i \in 1..Len(s) : s[i] = "."

\* the text after the final "." of a string that has one
ExtensionOf(s) == SubSeq(s, lastIndexOfDot(s) + 2, Len(s))

\* the text before the final "." of a string that has one
NameOf(s) == SubSeq(s, 1, lastIndexOfDot(s))

\* the edge trim as the contract states it: the name before the final "." is
\* stripped whenever there is a ".", the whole string otherwise
StatedEdgeTrim(s) ==
    IF HasDot(s)
    THEN StripUnderscores(NameOf(s)) \o Dot \o ExtensionOf(s)
    ELSE StripUnderscores(s)

StatedNormalize(f) ==
    IF f = <<>> THEN f
    ELSE Capitalize(StatedEdgeTrim(
             CollapseUnderscores(ReplaceSpaces(ReplaceForbidden(f)))))

ForbiddenSet == {FORBIDDEN_CHARS[i][1] : i \in 1..Len(FORBIDDEN_CHARS)}

\* C8: the result of normalizeMediaWikiFilename is that of substitution, space
\* to underscore, collapse, edge trim of the name before the final "." (of the
\* whole string when there is no "."), and capitalisation, in this order; the
\* empty string is returned unchanged
C8_StatedPipeline ==
    npc = "done" => normalized = StatedNormalize(filename)

\* C9: normalising a normalised title gives the same title
C9_Idempotent ==
    npc = "done" => normalizeMediaWikiFilename(normalized) = normalized

\* C10: for an input with a ".", the edge trim leaves the extension (the text
\* after the final ".") as it is, underscores included, and the result holds no
\* forbidden character, in the extension or elsewhere
C10_ExtensionExempt ==
    [][(npc = "trim" /\ HasDot(normalized))
        => /\ ExtensionOf(normalized') = ExtensionOf(normalized)
           /\ \A i \in 1..Len(normalized') : normalized'[i] \notin ForbiddenSet]_vars

-----------------------------------------------------------------------------
(* Claims C11 to C20 *)

\* the characters the title of a file page may not hold
Disallowed == ForbiddenSet \cup {" "}

\* C11: whatever the input, the result of normalizeMediaWikiFilename holds none
\* of the forbidden characters # < > [ ] { } | : and no space
C11_NoForbiddenOutput ==
    npc = "done" => \A i \in 1..Len(normalized) : normalized[i] \notin Disallowed

\* a name with two spaces and a forbidden character has been normalised
C11_Witness ==
    /\ npc = "done"
    /\ Cardinality({i \in 1..Len(filename) : filename[i] = " "}) >= 2
    /\ \E i \in 1..Len(filename) : filename[i] \in ForbiddenSet
    /\ normalized # <<>>

Range(seq) == {seq[i] : i \in 1..Len(seq)}

\* the text k, trimmed, stands between some "<<<" and some later ">>>" of t
OccursBetweenDelimiters(k, t) ==
    \E i \in 1..Len(t), j \in 1..Len(t) :
        /\ i + 3 <= j
        /\ IsAt(t, i, Open)
        /\ IsAt(t, j, Close)
        /\ Trim(SubSeq(t, i + 3, j - 1)) = k

\* the trimmed keys of the placeholders of t
PlaceholderKeys(t) ==
    LET ms == Matches(t, 1) IN {Trim(ms[i].key) : i \in 1..Len(ms)}

Example == ExampleTitle \o Space \o ExampleBody

\* C12: extractTemplateKeys returns every trimmed placeholder key that is not
\* empty, each exactly once, and nothing that does not stand between "<<<" and
\* ">>>" in the template; 'A <<<x>>> B <<<y.z>>> C' yields x and y.z
C12_DistinctTrimmedKeys ==
    /\ \A i, j \in 1..Len(extracted) : extracted[i] = extracted[j] => i = j
    /\ PlaceholderKeys(keyTemplate) \ {Empty} \subseteq Range(extracted)
    /\ \A k \in Range(extracted) : OccursBetweenDelimiters(k, keyTemplate)
    /\ keyTemplate = Example
           => /\ Len(extracted) = 2
              /\ Range(extracted) = {<<"x">>, <<"y", ".", "z">>}

\* a template that names a three times, bare and padded, next to b
C12_Witness ==
    /\ Len(Matches(keyTemplate, 1)) = 4
    /\ Range(extracted) = {KA, KB}
    /\ \E i \in 1..Len(keyTemplate) : IsAt(keyTemplate, i, Open \o Space \o KA)

\* C13: the keys extractTemplateKeys returns never include the empty string
C13_NoEmptyKey ==
    \A i \in 1..Len(extracted) : extracted[i] # Empty

\* createUtilityContext has returned
UtilityDerived == ctxUtility # Undefined

UtilityField(k) == Prop(ctxUtility.fields, k)

ExifField(k) ==
    IF ctxImage.exifData.kind = "object" /\ k \in DOMAIN ctxImage.exifData.fields
    THEN ctxImage.exifData.fields[k]
    ELSE Undefined

\* the field holds something: it is neither missing nor null
IsPresentField(k) == ExifField(k) # Undefined /\ ExifField(k) # Null

\* the timestamp the dates are to be derived from
StatedSource ==
    IF IsPresentField(KDateTimeOriginal) THEN ExifField(KDateTimeOriginal)
    ELSE IF IsPresentField(KCreateDate) THEN ExifField(KCreateDate)
    ELSE Undefined

IsValidTimestamp(v) ==
    v.kind \in {"date", "string"} /\ ParseTimestamp(v).valid

\* text is YYYY-MM-DD for the calendar fields of t
IsDateOf(text, t) ==
    /\ Len(text) = 10
    /\ AllDigits(text, 1, 4) /\ AllDigits(text, 6, 7) /\ AllDigits(text, 9, 10)
    /\ text[5] = "-" /\ text[8] = "-"
    /\ NumberOf(SubSeq(text, 1, 4)) = t.year
    /\ NumberOf(SubSeq(text, 6, 7)) = t.month + 1
    /\ NumberOf(SubSeq(text, 9, 10)) = t.day

\* text is HH:mm for the clock fields of t
IsTimeOf(text, t) ==
    /\ Len(text) = 5
    /\ AllDigits(text, 1, 2) /\ AllDigits(text, 4, 5)
    /\ text[3] = ":"
    /\ NumberOf(SubSeq(text, 1, 2)) = t.hours
    /\ NumberOf(SubSeq(text, 4, 5)) = t.minutes

C17_LowerCasedExtension ==
    UtilityDerived
    => /\ UtilityField(KExtension)
              = Str(IF HasDot(ctxImage.name)
                    THEN toLowerCase(ExtensionOf(ctxImage.name)) ELSE Empty)
       /\ ctxImage.name = PhotoJPG => UtilityField(KExtension) = Str(<<"j", "p", "g">>)
       /\ ctxImage.name = MyPhotoFilePng => UtilityField(KExtension) = Str(<<"p", "n", "g">>)
       /\ ctxImage.name = Photo => UtilityField(KExtension) = Str(Empty)

\* the extension of photo.JPG has been derived
C17_Witness ==
    /\ UtilityDerived
    /\ ctxImage.name = PhotoJPG
    /\ UtilityField(KExtension) = Str(<<"j", "p", "g">>)

\* the context of the image has been built
ContextBuilt == built # Undefined

Reserved == {KExif, KGlobal, KUtility}

\* the three namespaces hold the global values, the metadata and the utility
\* values
NamespacesPlaced ==
    /\ Prop(built.fields, KGlobal) = Obj(ctxGlobals)
    /\ Prop(built.fields, KExif)
           \in {ctxImage.exifData, Obj(ExifOrEmpty(ctxImage.exifData))}
    /\ Prop(built.fields, KUtility) = ctxUtility

\* C18 as stated: every local key, whatever its name, is at the top level of
\* the context with its value, and the three namespaces hold the global
\* values, the metadata and the utility values
C18_EveryLocalKeyVerbatim ==
    ContextBuilt
    => /\ \A k \in DOMAIN ctxImage.keys :
              Prop(built.fields, k) = ctxImage.keys[k]
       /\ NamespacesPlaced

\* C18, amended: every local key whose name is not exif, global or utility is
\* at the top level of the context with its value; the three namespaces hold
\* the global values, the metadata and the utility values, also when a local
\* key bears their name; the context holds nothing else
C18_UnreservedKeysVerbatim ==
    ContextBuilt
    => /\ \A k \in DOMAIN ctxImage.keys \ Reserved :
              Prop(built.fields, k) = ctxImage.keys[k]
       /\ NamespacesPlaced
       /\ DOMAIN built.fields = DOMAIN ctxImage.keys \cup Reserved

\* an image with the local keys a and global has been given its context
C18_Witness ==
    /\ ContextBuilt
    /\ {KA, KGlobal} \subseteq DOMAIN ctxImage.keys
    /\ built.fields[KA] = ctxImage.keys[KA]
    /\ built.fields[KGlobal] = Obj(ctxGlobals)

\* the render is that of the placeholder of k1 against the chain of depth d
IsChainRender(d) ==
    template = Placeholder(ChainKey(1)) /\ context = ChainContext(d)

\* C20: with maxIterations = N, a chain of indirection of depth d is fully
\* resolved whenever d <= N; when d > N the placeholder still present after
\* the N passes, that of k(N+1), is replaced by the sentinel
C20_ChainDepth ==
    \A d \in 1..MaxDepth :
        IsChainRender(d)
        => /\ (pc = "done" /\ d <= maxIterations) => result = PlainText
           /\ (pc = "done" /\ d > maxIterations) => result = MISSING_PLACEHOLDER
           /\ (pc = "loop" /\ iteration = maxIterations /\ d > maxIterations)
                  => result = Placeholder(ChainKey(maxIterations + 1))

\* a chain as deep as maxIterations has been resolved, and a deeper one has
\* been cut
C20_Witness ==
    /\ pc = "done"
    /\ maxIterations = 2
    /\ IsChainRender(2)
    /\ result = PlainText

C20_WitnessCut ==
    /\ pc = "done"
    /\ maxIterations = 2
    /\ IsChainRender(3)
    /\ result = MISSING_PLACEHOLDER

\* effect run e made an object URL and its cleanup has run: the component no
\* longer uses the URL
NoLongerUsed(e) ==
    /\ e <= Len(effects)
    /\ effects[e].cleaned
    /\ effects[e].objectUrl # Undefined

IsRevoked(e) == e <= Len(effects) /\ effects[e].objectUrl \in revoked

\* C19: in every interleaving of the load with unmounting or with a change of
\* imageId, each object URL obtained from getImageObjectUrl is eventually
\* revoked once the component no longer uses it
C19_EveryUrlRevoked ==
    \A e \in 1..MaxEffects : NoLongerUsed(e) ~> IsRevoked(e)

-----------------------------------------------------------------------------
(* Claims C21 to C30 *)

\* the name portion of a title: the text before its final ".", the whole
\* title when it has no "."
NamePortion(s) == IF HasDot(s) THEN NameOf(s) ELSE s

\* C22: whatever the input, the result of normalizeMediaWikiFilename holds no
\* two consecutive underscores, does not begin with an underscore, and its
\* name portion neither begins nor ends with an underscore
C22_UnderscoresNormalised ==
    npc = "done"
    => /\ \A i \in 1..(Len(normalized) - 1) :
              ~(normalized[i] = "_" /\ normalized[i + 1] = "_")
       /\ normalized # <<>> => normalized[1] # "_"
       /\ LET name == NamePortion(normalized)
          IN  name # <<>> => (name[1] # "_" /\ name[Len(name)] # "_")

\* a name with underscores at both ends of the part before its extension has
\* been normalised
C22_Witness ==
    /\ npc = "done"
    /\ filename = <<"_", "a", "_", ".">>
    /\ normalized = <<"A", ".">>

\* the render is that of the placeholder of a.b against one of the contexts
\* of CallDotted
IsDottedRender ==
    /\ template \in {Bare(DottedKey), Padded(DottedKey)}
    /\ context \in DottedContexts

\* the context holds an object a with a field b that is not empty
HasNestedField ==
    /\ KA \in DOMAIN context.fields
    /\ context.fields[KA].kind = "object"
    /\ KB \in DOMAIN context.fields[KA].fields
    /\ context.fields[KA].fields[KB] \notin {Undefined, Null, Str(Empty)}

\* the rendered text with the plain text around a padded placeholder removed
RenderedKey ==
    IF template = Padded(DottedKey) /\ Len(result) >= 2
    THEN SubSeq(result, 2, Len(result) - 1)
    ELSE result

\* C23: the placeholder of a.b is resolved by stepping through a and then b
\* only: a flat entry named a.b is never found, and the placeholder renders
\* as the sentinel unless the context holds an object a with a non-empty
\* field b, although the Fill out tab offers a field for the key a.b
C23_DottedKeyIsAPath ==
    (pc = "done" /\ IsDottedRender)
    => /\ ~HasNestedField => RenderedKey = MISSING_PLACEHOLDER
       /\ (HasNestedField /\ maxIterations >= 1)
              => RenderedKey = String(context.fields[KA].fields[KB])
       /\ \E i \in 1..Len(FillOutKeys(Empty, template)) :
              FillOutKeys(Empty, template)[i] = DottedKey

\* the flat entry a.b is filled in and the placeholder has rendered as the
\* sentinel
C23_Witness ==
    /\ pc = "done"
    /\ template = Bare(DottedKey)
    /\ maxIterations = DefaultMaxIterations
    /\ Prop(context.fields, DottedKey) = Str(<<"f">>)
    /\ Prop(context.fields, KA) = Undefined
    /\ result = MISSING_PLACEHOLDER

\* the step is the arrival of the response of effect run e
ResponseArrives(e) ==
    /\ Len(effects') = Len(effects)
    /\ ~effects[e].settled
    /\ effects'[e].settled

\* C29: a LOAD_SUCCESS or LOAD_ERROR whose imageId differs from the imageId of
\* the state (that of the latest LOAD_START, or none after RESET) leaves the
\* state as it is, and a state that is loading stops loading for the same
\* imageId only when a response for that imageId arrives
C29_StaleResponseIgnored ==
    [][(\A e \in 1..Len(effects) :
           (ResponseArrives(e) /\ effects[e].imageId # state.imageId)
               => state' = state)
       /\ ((state.isLoading /\ ~state'.isLoading
               /\ state'.imageId = state.imageId)
              => \E e \in 1..Len(effects) :
                     ResponseArrives(e) /\ effects[e].imageId = state.imageId)]_vars

\* the response of an earlier effect run has arrived with an object URL while
\* the state was loading another imageId, and the state is still loading
C29_Witness ==
    /\ mounted
    /\ Len(effects) = 2
    /\ effects[1].settled /\ effects[1].objectUrl # Undefined
    /\ ~effects[2].settled
    /\ effects[2].imageId # effects[1].imageId
    /\ state.imageId = effects[2].imageId
    /\ state.isLoading
    /\ state.imageUrl = Undefined
    /\ state.error = Undefined

\* the ids of the latest render, first to last
RenderedIds == [k \in 1..Len(rendered.items) |-> rendered.items[k].id]

\* utility.index of the k-th image of the latest render
RenderedIndex(k) == Prop(UtilityOf(rendered.items[k]).fields, KIndex)

C25_BlobsMatchImages == inFlight = {} => blobs = KeySet(images)

\* every id of seq occurs in it once
EachOnce(seq) == \A i, j \in 1..Len(seq) : seq[i] = seq[j] => i = j

\* C24: after any sequence and interleaving of the operations of the store,
\* imageOrder lists exactly the keys of images, each once
C24_OrderListsImages ==
    /\ Range(imageOrder) = KeySet(images)
    /\ EachOnce(imageOrder)

\* C26: uploadFile is called for an image only if the store marks it as
\* reviewed when the loop of handleUploadAll reaches it
C26_OnlyReviewedUploaded == \A call \in uploadCalls : call.reviewed

\* C27: handleUploadAll never calls uploadFile for an image whose upload has
\* succeeded in an earlier run
C27_NoSecondUpload == \A call \in uploadCalls : ~call.uploaded

\* a run of handleUploadAll is under way
RunActive == run.stage # "idle"

StatusOf(imgs, id) == ValueOf(imgs, id).uploadStatus

Outcomes == {"success", "warning", "error"}

\* during a run the reviewed images of its snapshot before the current one
\* have an outcome, the current one is uploading and the later ones are pending
RunInOrder ==
    RunActive
    => /\ isUploading
       /\ \A k \in 1..Len(run.items) :
              run.items[k].reviewed
              => LET status == StatusOf(images, run.items[k].id)
                 IN  /\ k < run.pos => status \in Outcomes
                     /\ k = run.pos => status = "uploading"
                     /\ k > run.pos => status = "pending"

\* outside a run isUploading is false and no image is pending or uploading
NothingLeftOver ==
    ~RunActive
    => /\ ~isUploading
       /\ \A id \in KeySet(images) :
              StatusOf(images, id) \notin {"pending", "uploading"}

\* the status of an image moves to pending or uploading when a run starts,
\* from pending to uploading, and from uploading to an outcome
StatusStep ==
    \A id \in KeySet(images) :
        LET old == StatusOf(images, id)
            new == StatusOf(images', id)
        IN  old # new
            => \/ ~RunActive /\ new \in {"pending", "uploading"}
               \/ old = "pending" /\ new = "uploading"
               \/ old = "uploading" /\ new \in Outcomes

\* C28: every run of handleUploadAll finishes, whatever getImageAsFile and
\* uploadFile return or throw; each image of the run goes from pending to
\* uploading to one of success, warning and error, and when the run has ended
\* no image is pending or uploading and isUploading is false
C28_EveryRunFinishes ==
    /\ [](RunInOrder /\ NothingLeftOver)
    /\ [][StatusStep]_vars
    /\ (RunActive ~> ~RunActive)

\* a run over two images has ended: the first had no data, the second was
\* uploaded
C28_Witness ==
    /\ ~RunActive
    /\ ~isUploading
    /\ Len(images) = 2
    /\ images[1].value.uploadStatus = "error"
    /\ images[1].value.uploadError = NotFound
    /\ images[2].value.uploadStatus = "success"
    /\ uploadCalls = {[reviewed |-> TRUE, uploaded |-> FALSE]}

\* the gets of the image that have returned an object URL and have not been
\* released
RECURSIVE Unreleased(_, _)
Unreleased(id, url) ==
    IF url = 0 THEN 0
    ELSE (IF urlsCreated[url] = id THEN holding[url] ELSE 0)
         + Unreleased(id, url - 1)

\* C30: for every image the refCount of its cache entry is the number of gets
\* not yet released, the entry exists exactly while that number is positive,
\* and no object URL is revoked while a get that returned it is unreleased
C30_RefCountIsHolders ==
    /\ \A id \in ImageIds :
           LET holders == Unreleased(id, Len(urlsCreated))
           IN  /\ id \in DOMAIN imageUrlCache <=> holders > 0
               /\ id \in DOMAIN imageUrlCache
                     => imageUrlCache[id].refCount = holders
    /\ \A url \in urlsRevoked : holding[url] = 0

====
